---- MODULE Spec2Model ----
(***************************************************************************)
(* Flight-delay prediction service: the documented service (src/src/main.py)*)
(* and the minimal service (src/src/app.py).  Each module keeps two         *)
(* process-wide globals, `model` and `history`, and serves four endpoints:  *)
(* POST /model/load/, POST /model/predict/, GET /model/history/ and         *)
(* GET /health/.  One process serves one of the two modules.                *)
(***************************************************************************)
EXTENDS Integers, Sequences, FiniteSets, TLC

VARIABLES
    served,       \* which module's `app` the process serves: "main" or "app"
    model,        \* main.py global `model`
    history,      \* main.py global `history`
    app_model,    \* app.py global `model`
    app_history,  \* app.py global `history`
    request,      \* the request handled last
    response,     \* the response it got
    input_data,   \* the feature table handed to model.predict by that request
    returned,     \* per predict that answered a prediction: body posted, value returned
    tasks,        \* the requests in flight on the event loop, in arrival order
    running,      \* the task whose handler holds the event loop (0: none)
    done          \* the tasks answered, in the order they were answered

vars == <<served, model, history, app_model, app_history,
          request, response, input_data, returned, tasks, running, done>>

\* Longest history explored.
MaxHistory == 2

\* Most requests in flight together.
MaxTasks == 3

-----------------------------------------------------------------------------
(* JSON / Python values: an integer, a float (whole-valued, n.0) or a string *)

I(n) == [t |-> "int", n |-> n, s |-> ""]
F(n) == [t |-> "float", n |-> n, s |-> ""]
S(s) == [t |-> "str", n |-> 0, s |-> s]
\* A Python bool cell of a DataFrame (a get_dummies indicator).
B(b) == [t |-> "bool", n |-> IF b THEN 1 ELSE 0, s |-> ""]

-----------------------------------------------------------------------------
(* FlightData: the declared fields, in declaration order, and their types    *)

FlightData == <<"month", "day", "hour", "sched_dep_time", "sched_arr_time",
                "origin", "dest", "carrier", "distance">>

Range(seq) == {seq[i] : i \in DOMAIN seq}

FieldType(f) ==
    CASE f \in {"month", "day", "hour", "sched_dep_time", "sched_arr_time"} -> "int"
      [] f \in {"origin", "dest", "carrier"} -> "str"
      [] f = "distance" -> "float"

\* The documented example record (Config.json_schema_extra).
example ==
    [month |-> I(7), day |-> I(23), hour |-> I(16),
     sched_dep_time |-> I(1630), sched_arr_time |-> I(1930),
     origin |-> S("JFK"), dest |-> S("LAX"), carrier |-> S("DL"),
     distance |-> F(3983)]

\* The record the test suite posts: the example plus an undeclared dep_delay.
test_data ==
    [month |-> I(7), day |-> I(23), hour |-> I(16),
     sched_dep_time |-> I(1630), sched_arr_time |-> I(1930),
     origin |-> S("JFK"), dest |-> S("LAX"), carrier |-> S("DL"),
     distance |-> F(3983), dep_delay |-> F(15)]

\* The request bodies explored, by name.
BodyNames == {"example", "test_data", "other_route", "december",
              "no_distance", "month_text"}

Body(b) ==
    CASE b = "example" -> example
      [] b = "test_data" -> test_data
      \* same numbers as the example, other carrier, origin and destination
      [] b = "other_route" ->
           [example EXCEPT !.origin = S("GRU"), !.dest = S("MIA"), !.carrier = S("AA")]
      \* other numbers, distance sent as a JSON integer
      [] b = "december" ->
           [example EXCEPT !.month = I(12), !.distance = I(2475)]
      \* a declared field is missing
      [] b = "no_distance" ->
           [f \in Range(FlightData) \ {"distance"} |-> example[f]]
      \* a declared int field holds text that is no number
      [] b = "month_text" ->
           [example EXCEPT !.month = S("julho")]

\* pydantic's conversion of one JSON value to a declared type: ok and the value.
\* (A string that spells a number is outside the bodies explored.)
Coerce(type, v) ==
    CASE type = "int" /\ v.t = "int" -> [ok |-> TRUE, v |-> v]
      [] type = "int" /\ v.t = "float" -> [ok |-> TRUE, v |-> I(v.n)]
      [] type = "float" /\ v.t = "float" -> [ok |-> TRUE, v |-> v]
      [] type = "float" /\ v.t = "int" -> [ok |-> TRUE, v |-> F(v.n)]
      [] type = "str" /\ v.t = "str" -> [ok |-> TRUE, v |-> v]
      [] OTHER -> [ok |-> FALSE, v |-> v]

\* Whether a JSON body passes FlightData validation: every declared field is
\* present and converts to its type (undeclared fields are ignored).
Valid(body) ==
    \A f \in Range(FlightData) :
        f \in DOMAIN body /\ Coerce(FieldType(f), body[f]).ok

\* Mutant: the body is stored as posted, undeclared fields included.
dict_verbatim(body) == body

\* data.dict() of the FlightData built from a valid body: the declared fields
\* only, each converted to its declared type.
dict(body) ==
    [f \in Range(FlightData) |-> Coerce(FieldType(f), body[f]).v]

-----------------------------------------------------------------------------
(* What joblib.load can give back: nothing (the file is no pickle), None,    *)
(* an object that is no estimator, or an estimator.                          *)

\* Python's None in the model slot.
None == [kind |-> "None", feature_names_in_ |-> <<>>, raises |-> "", message |-> ""]

\* An estimator: its feature_names_in_, and what its predict raises ("" when
\* it answers).
Estimator(names, raises, message) ==
    [kind |-> "estimator", feature_names_in_ |-> names,
     raises |-> raises, message |-> message]

\* The uploaded files explored, by name.
Files == {"flight_delay_model.joblib", "second_model.joblib", "invalid.csv",
          "dict.joblib", "none.joblib", "rejecting.joblib", "crashing.joblib"}

\* joblib.load(file.file): ok and the object, or the exception's text.
joblib_load(file) ==
    CASE file = "flight_delay_model.joblib" ->
           [ok |-> TRUE, error |-> "",
            obj |-> Estimator(<<"month", "day", "hour", "sched_dep_time",
                                "sched_arr_time", "distance", "dep_delay",
                                "carrier_DL", "origin_JFK", "dest_LAX">>, "", "")]
      [] file = "second_model.joblib" ->
           [ok |-> TRUE, error |-> "",
            obj |-> Estimator(<<"distance", "carrier_AA", "month">>, "", "")]
      [] file = "invalid.csv" ->
           [ok |-> FALSE, error |-> "invalid load key, 'E'.", obj |-> None]
      [] file = "dict.joblib" ->
           [ok |-> TRUE, error |-> "",
            obj |-> [kind |-> "object", feature_names_in_ |-> <<>>,
                     raises |-> "AttributeError",
                     message |-> "'dict' object has no attribute 'feature_names_in_'"]]
      [] file = "none.joblib" ->
           [ok |-> TRUE, error |-> "", obj |-> None]
      [] file = "rejecting.joblib" ->
           [ok |-> TRUE, error |-> "",
            obj |-> Estimator(<<"month", "distance">>, "ValueError",
                              "could not convert string to float")]
      [] file = "crashing.joblib" ->
           [ok |-> TRUE, error |-> "",
            obj |-> Estimator(<<"month", "distance">>, "RuntimeError",
                              "estimator failed")]

\* model.predict(input_data)[0] of an estimator that answers: a number fixed
\* by the row's values and their column order.
RECURSIVE weighted(_, _)
weighted(values, i) ==
    IF i > Len(values) THEN 0 ELSE i * values[i].n + weighted(values, i + 1)

model_predict(m, df) == weighted(df.values, 1)

-----------------------------------------------------------------------------
(* The one-row feature table and its alignment to the model's columns        *)

\* pd.DataFrame([data.dict()]): one column per field, in declaration order.
DataFrame(d) ==
    [columns |-> FlightData,
     values |-> [i \in DOMAIN FlightData |-> d[FlightData[i]]]]

\* The row's cell in column c.
Cell(df, c) == df.values[CHOOSE i \in DOMAIN df.columns : df.columns[i] = c]

\* The indicator columns get_dummies makes of column c: one per category seen
\* in the column (a one-row table has one), the first left out under drop_first.
dummies(df, c, drop_first) ==
    LET categories == <<Cell(df, c).s>>
        kept == IF drop_first THEN Tail(categories) ELSE categories
    IN  [columns |-> [i \in DOMAIN kept |-> c \o "_" \o kept[i]],
         values |-> [i \in DOMAIN kept |-> B(Cell(df, c).s = kept[i])]]

RECURSIVE all_dummies(_, _, _, _)
all_dummies(df, columns, drop_first, i) ==
    IF i > Len(columns)
    THEN [columns |-> <<>>, values |-> <<>>]
    ELSE LET d == dummies(df, columns[i], drop_first)
             rest == all_dummies(df, columns, drop_first, i + 1)
         IN  [columns |-> d.columns \o rest.columns,
              values |-> d.values \o rest.values]

\* pd.get_dummies(df, columns=..., drop_first=...): the columns not encoded, in
\* their order, then each encoded column's indicators.
get_dummies(df, columns, drop_first) ==
    LET keep == {i \in DOMAIN df.columns : df.columns[i] \notin Range(columns)}
        pick(seq) == SelectSeq([i \in DOMAIN seq |-> <<i, seq[i]>>],
                               LAMBDA p : p[1] \in keep)
        plain == [columns |-> [i \in DOMAIN pick(df.columns) |-> pick(df.columns)[i][2]],
                  values |-> [i \in DOMAIN pick(df.values) |-> pick(df.values)[i][2]]]
        d == all_dummies(df, columns, drop_first, 1)
    IN  [columns |-> plain.columns \o d.columns,
         values |-> plain.values \o d.values]

\* set(model.feature_names_in_) - set(input_data.columns)
missing_cols(m, df) == Range(m.feature_names_in_) \ Range(df.columns)

\* for col in missing_cols: input_data[col] = 0
RECURSIVE fill(_, _)
fill(df, cols) ==
    IF cols = {} THEN df
    ELSE LET c == CHOOSE x \in cols : TRUE
         IN  fill([columns |-> Append(df.columns, c),
                   values |-> Append(df.values, I(0))], cols \ {c})

\* Mutant: the table is handed over without selecting the model's columns.
select_skipped(df, names) == df

\* input_data[model.feature_names_in_]: the named columns, in that order.
select(df, names) ==
    [columns |-> names, values |-> [i \in DOMAIN names |-> Cell(df, names[i])]]

\* Mutant: get_dummies without drop_first.
aligned_keep_first(m, d) ==
    LET encoded == get_dummies(DataFrame(d), <<"carrier", "origin", "dest">>, FALSE)
    IN  select(fill(encoded, missing_cols(m, encoded)), m.feature_names_in_)

\* The table predict hands to the model for the validated record d.
aligned(m, d) ==
    LET encoded == get_dummies(DataFrame(d), <<"carrier", "origin", "dest">>, TRUE)
    IN  select(fill(encoded, missing_cols(m, encoded)), m.feature_names_in_)

-----------------------------------------------------------------------------
(* Requests and responses                                                    *)

NoRequest == [op |-> "none", body |-> "", file |-> ""]
NoResponse == [status |-> 0, body |-> [none |-> ""]]
NoTable == [handed |-> FALSE, columns |-> <<>>, values |-> <<>>]
Handed(df) == [handed |-> TRUE, columns |-> df.columns, values |-> df.values]

\* A handler's return value, sent with status 200.
Return(body) == [status |-> 200, body |-> body]

\* raise HTTPException(status_code=..., detail=...)
HTTPException(status_code, detail) ==
    [status |-> status_code, body |-> [detail |-> detail]]

\* Mutant: the handler itself rejects the body, as a 400.
RequestValidationError_400(body) == HTTPException(400, "Dados de entrada inválidos")

\* The framework's answer to a body that fails FlightData validation, sent
\* before the handler runs: 422 and the first failing field.
RequestValidationError(body) ==
    LET bad == {i \in DOMAIN FlightData :
                   ~(FlightData[i] \in DOMAIN body
                     /\ Coerce(FieldType(FlightData[i]), body[FlightData[i]]).ok)}
        first == FlightData[CHOOSE i \in bad : \A j \in bad : i <= j]
    IN  HTTPException(422, IF first \in DOMAIN body
                           THEN "Input should be a valid " \o FieldType(first)
                                    \o ": " \o first
                           ELSE "Field required: " \o first)

\* The framework's answer when a handler lets an exception escape.
InternalServerError == [status |-> 500, body |-> [text |-> "Internal Server Error"]]

-----------------------------------------------------------------------------
(* src/src/main.py                                                           *)

\* Mutant: the not-loaded check is left out.
model_is_None_skipped(m) == FALSE

\* `if model is None` (predict).
model_is_None(m) == m = None

\* The except clauses of predict: ValueError, then any other Exception.
predict_except(raises, message) ==
    IF raises = "ValueError"
    THEN HTTPException(422, message)
    ELSE HTTPException(500, "Erro interno do servidor: " \o message)

\* Mutant: the entry is written before the model is consulted, so a predict
\* that fails is logged too.
predict_body_logs_first(m, d) ==
    IF model_is_None(m)
    THEN [response |-> HTTPException(400, "Modelo não carregado"),
          appended |-> <<>>, table |-> NoTable]
    ELSE [response |-> predict_except(m.raises, m.message),
          appended |-> <<[input |-> d, prediction |-> 0]>>, table |-> NoTable]

\* The body of predict for the validated record d and the model m in the slot:
\* the response, the entries appended to history, the table handed to the model.
predict_body(m, d) ==
    IF model_is_None(m)
    THEN [response |-> HTTPException(400, "Modelo não carregado"),
          appended |-> <<>>, table |-> NoTable]
    ELSE IF m.kind # "estimator"
    THEN \* model.feature_names_in_ raises AttributeError
         [response |-> predict_except(m.raises, m.message),
          appended |-> <<>>, table |-> NoTable]
    ELSE LET df == aligned(m, d)
         IN  IF m.raises # ""
             THEN \* model.predict raises
                  [response |-> predict_except(m.raises, m.message),
                   appended |-> <<>>, table |-> Handed(df)]
             ELSE LET prediction == model_predict(m, df)
                  IN  [response |-> Return([prediction |-> prediction]),
                       appended |-> <<[input |-> d, prediction |-> prediction]>>,
                       table |-> Handed(df)]

\* What a predict that answers a prediction adds to `returned`.
Returned(b, r) ==
    IF "prediction" \in DOMAIN r.response.body
    THEN <<[body |-> b, prediction |-> r.response.body.prediction]>>
    ELSE <<>>

\* Mutant: the slot is cleared before deserializing, so a failed load empties it.
load_model_clears(file) ==
    /\ served = "main"
    /\ request' = [op |-> "load", body |-> "", file |-> file]
    /\ LET r == joblib_load(file)
       IN  IF r.ok
           THEN /\ model' = r.obj
                /\ response' = Return([status |-> "Modelo carregado com sucesso"])
           ELSE /\ model' = None
                /\ response' = HTTPException(400, r.error)
    /\ input_data' = NoTable
    /\ UNCHANGED <<tasks, running, done, served, history, app_model, app_history, returned>>

\* Mutant: without `global model` the assignment stays local to the handler.
load_model_local(file) ==
    /\ served = "main"
    /\ request' = [op |-> "load", body |-> "", file |-> file]
    /\ LET r == joblib_load(file)
       IN  response' = IF r.ok
                       THEN Return([status |-> "Modelo carregado com sucesso"])
                       ELSE HTTPException(400, r.error)
    /\ input_data' = NoTable
    /\ UNCHANGED <<tasks, running, done, served, model, history, app_model, app_history, returned>>

\* POST /model/load/
load_model(file) ==
    /\ served = "main"
    /\ request' = [op |-> "load", body |-> "", file |-> file]
    /\ LET r == joblib_load(file)
       IN  IF r.ok
           THEN /\ model' = r.obj
                /\ response' = Return([status |-> "Modelo carregado com sucesso"])
           ELSE /\ model' = model
                /\ response' = HTTPException(400, r.error)
    /\ input_data' = NoTable
    /\ UNCHANGED <<tasks, running, done, served, history, app_model, app_history, returned>>

\* POST /model/predict/
predict(b) ==
    /\ served = "main"
    /\ Len(history) < MaxHistory
    /\ request' = [op |-> "predict", body |-> b, file |-> ""]
    /\ IF ~Valid(Body(b))
       THEN /\ response' = RequestValidationError(Body(b))
            /\ input_data' = NoTable
            /\ UNCHANGED <<history, returned>>
       ELSE LET r == predict_body(model, dict(Body(b)))
            IN  /\ response' = r.response
                /\ input_data' = r.table
                /\ history' = history \o r.appended
                /\ returned' = returned \o Returned(b, r)
    /\ UNCHANGED <<tasks, running, done, served, model, app_model, app_history>>

\* Mutant: the log is handed out and emptied.
get_history_drains ==
    /\ served = "main"
    /\ request' = [op |-> "get_history", body |-> "", file |-> ""]
    /\ response' = Return([history |-> history])
    /\ history' = <<>>
    /\ input_data' = NoTable
    /\ UNCHANGED <<tasks, running, done, served, model, app_model, app_history, returned>>

\* Mutant: the empty log is returned like any other.
get_history_unguarded ==
    /\ served = "main"
    /\ request' = [op |-> "get_history", body |-> "", file |-> ""]
    /\ response' = Return([history |-> history])
    /\ input_data' = NoTable
    /\ UNCHANGED <<tasks, running, done, served, model, history, app_model, app_history, returned>>

\* GET /model/history/
get_history ==
    /\ served = "main"
    /\ request' = [op |-> "get_history", body |-> "", file |-> ""]
    /\ response' = IF history = <<>>
                   THEN HTTPException(404, "Histórico não encontrado")
                   ELSE Return([history |-> history])
    /\ input_data' = NoTable
    /\ UNCHANGED <<tasks, running, done, served, model, history, app_model, app_history, returned>>

\* Mutant: health reports on the model slot.
health_of_model ==
    /\ served = "main"
    /\ request' = [op |-> "health", body |-> "", file |-> ""]
    /\ response' = IF model = None
                   THEN [status |-> 503, body |-> [status |-> "Modelo não carregado"]]
                   ELSE Return([status |-> "API está funcionando corretamente"])
    /\ input_data' = NoTable
    /\ UNCHANGED <<tasks, running, done, served, model, history, app_model, app_history, returned>>

\* GET /health/
health ==
    /\ served = "main"
    /\ request' = [op |-> "health", body |-> "", file |-> ""]
    /\ response' = Return([status |-> "API está funcionando corretamente"])
    /\ input_data' = NoTable
    /\ UNCHANGED <<tasks, running, done, served, model, history, app_model, app_history, returned>>

-----------------------------------------------------------------------------
(* src/src/app.py                                                            *)

\* Mutant: the not-loaded answer is raised with status 400.
app_predict_body_400(m, d) ==
    IF m = None
    THEN [response |-> HTTPException(400, "Modelo não carregado"),
          appended |-> <<>>, table |-> NoTable]
    ELSE [response |-> InternalServerError, appended |-> <<>>, table |-> NoTable]

\* The body of app.py's predict: no exception is caught.
app_predict_body(m, d) ==
    IF m = None
    THEN [response |-> Return([error |-> "Modelo não carregado"]),
          appended |-> <<>>, table |-> NoTable]
    ELSE IF m.kind # "estimator"
    THEN [response |-> InternalServerError, appended |-> <<>>, table |-> NoTable]
    ELSE LET df == aligned(m, d)
         IN  IF m.raises # ""
             THEN [response |-> InternalServerError,
                   appended |-> <<>>, table |-> Handed(df)]
             ELSE LET prediction == model_predict(m, df)
                  IN  [response |-> Return([prediction |-> prediction]),
                       appended |-> <<[input |-> d, prediction |-> prediction]>>,
                       table |-> Handed(df)]

\* POST /model/load/
app_load_model(file) ==
    /\ served = "app"
    /\ request' = [op |-> "load", body |-> "", file |-> file]
    /\ LET r == joblib_load(file)
       IN  IF r.ok
           THEN /\ app_model' = r.obj
                /\ response' = Return([status |-> "Modelo carregado com sucesso"])
           ELSE /\ app_model' = app_model
                /\ response' = Return([error |-> r.error])
    /\ input_data' = NoTable
    /\ UNCHANGED <<tasks, running, done, served, model, history, app_history, returned>>

\* POST /model/predict/
app_predict(b) ==
    /\ served = "app"
    /\ Len(app_history) < MaxHistory
    /\ request' = [op |-> "predict", body |-> b, file |-> ""]
    /\ IF ~Valid(Body(b))
       THEN /\ response' = RequestValidationError(Body(b))
            /\ input_data' = NoTable
            /\ UNCHANGED <<app_history, returned>>
       ELSE LET r == app_predict_body(app_model, dict(Body(b)))
            IN  /\ response' = r.response
                /\ input_data' = r.table
                /\ app_history' = app_history \o r.appended
                /\ returned' = returned \o Returned(b, r)
    /\ UNCHANGED <<tasks, running, done, served, model, history, app_model>>

\* GET /model/history/
app_get_history ==
    /\ served = "app"
    /\ request' = [op |-> "get_history", body |-> "", file |-> ""]
    /\ response' = Return([history |-> app_history])
    /\ input_data' = NoTable
    /\ UNCHANGED <<tasks, running, done, served, model, history, app_model, app_history, returned>>

\* GET /health/
app_health ==
    /\ served = "app"
    /\ request' = [op |-> "health", body |-> "", file |-> ""]
    /\ response' = Return([status |-> "API está funcionando corretamente"])
    /\ input_data' = NoTable
    /\ UNCHANGED <<tasks, running, done, served, model, history, app_model, app_history, returned>>

-----------------------------------------------------------------------------
(* The process                                                               *)

Init ==
    /\ served \in {"main", "app"}
    /\ model = None
    /\ history = <<>>
    /\ app_model = None
    /\ app_history = <<>>
    /\ request = NoRequest
    /\ response = NoResponse
    /\ input_data = NoTable
    /\ returned = <<>>
    /\ tasks = <<>>
    /\ running = 0
    /\ done = <<>>

Next ==
    \/ \E file \in Files : load_model(file)
    \/ \E b \in BodyNames : predict(b)
    \/ get_history
    \/ health
    \/ \E file \in Files : app_load_model(file)
    \/ \E b \in BodyNames : app_predict(b)
    \/ app_get_history
    \/ app_health

Spec == Init /\ [][Next]_vars

-----------------------------------------------------------------------------
(* src/src/main.py on the event loop: requests in flight together.  Each     *)
(* handler is an `async def` coroutine; the loop runs one coroutine at a     *)
(* time and changes to another only where the running one awaits.            *)

\* The requests sent concurrently.
Requests ==
    {[op |-> "load", body |-> "", file |-> f] :
        f \in {"flight_delay_model.joblib", "none.joblib", "invalid.csv"}}
    \cup {[op |-> "predict", body |-> b, file |-> ""] : b \in {"example", "december"}}
    \cup {[op |-> "get_history", body |-> "", file |-> ""],
          [op |-> "health", body |-> "", file |-> ""]}

\* A request that arrived: its handler has not started; `seen` lists the
\* values of the global `model` the handler has read.
Task(req) ==
    [req |-> req, pc |-> "start", seen |-> <<>>, table |-> NoTable,
     prediction |-> 0, response |-> NoResponse]

\* Mutant: every statement of a handler is followed by an await.
Suspends_everywhere(op, pc) == TRUE

\* Whether the handler of `op` awaits before its statement `pc`: no handler
\* body holds an await.
Suspends(op, pc) == FALSE

\* Task t may take a step: the loop is free or it holds the loop.
MayRun(t) == t \in DOMAIN tasks /\ tasks[t].pc # "done" /\ running \in {0, t}

\* Task t's handler returns or raises: the response is sent.
Finish(t, resp, seen) ==
    /\ tasks' = [tasks EXCEPT ![t].pc = "done", ![t].response = resp, ![t].seen = seen]
    /\ done' = Append(done, t)
    /\ running' = 0

\* Task t's handler goes on to its statement pc.
Advance(t, pc, seen, table, prediction) ==
    /\ tasks' = [tasks EXCEPT ![t].pc = pc, ![t].seen = seen,
                              ![t].table = table, ![t].prediction = prediction]
    /\ done' = done
    /\ running' = IF Suspends(tasks[t].req.op, pc) THEN 0 ELSE t

\* A request arrives.
arrive(req) ==
    /\ Len(tasks) < MaxTasks
    /\ tasks' = Append(tasks, Task(req))
    /\ UNCHANGED <<served, model, history, app_model, app_history,
                   request, response, input_data, returned, running, done>>

\* load_model: model = joblib.load(file.file), return or raise.
load_model_task(t) ==
    /\ MayRun(t) /\ tasks[t].req.op = "load"
    /\ LET r == joblib_load(tasks[t].req.file)
       IN  IF r.ok
           THEN /\ model' = r.obj
                /\ Finish(t, Return([status |-> "Modelo carregado com sucesso"]), <<>>)
           ELSE /\ model' = model
                /\ Finish(t, HTTPException(400, r.error), <<>>)
    /\ UNCHANGED <<served, history, app_model, app_history,
                   request, response, input_data, returned>>

\* predict: the body is validated, then `if model is None`.
predict_check(t) ==
    /\ MayRun(t) /\ tasks[t].req.op = "predict" /\ tasks[t].pc = "start"
    /\ IF ~Valid(Body(tasks[t].req.body))
       THEN Finish(t, RequestValidationError(Body(tasks[t].req.body)), <<>>)
       ELSE IF model_is_None(model)
       THEN Finish(t, HTTPException(400, "Modelo não carregado"), <<model>>)
       ELSE Advance(t, "align", <<model>>, NoTable, 0)
    /\ UNCHANGED <<served, model, history, app_model, app_history,
                   request, response, input_data, returned>>

\* predict: input_data is built from the record and model.feature_names_in_.
predict_align(t) ==
    /\ MayRun(t) /\ tasks[t].req.op = "predict" /\ tasks[t].pc = "align"
    /\ LET seen == Append(tasks[t].seen, model)
       IN  IF model.kind # "estimator"
           THEN Finish(t, predict_except(model.raises, model.message), seen)
           ELSE Advance(t, "invoke", seen,
                        Handed(aligned(model, dict(Body(tasks[t].req.body)))), 0)
    /\ UNCHANGED <<served, model, history, app_model, app_history,
                   request, response, input_data, returned>>

\* predict: prediction = model.predict(input_data)[0].
predict_invoke(t) ==
    /\ MayRun(t) /\ tasks[t].req.op = "predict" /\ tasks[t].pc = "invoke"
    /\ LET seen == Append(tasks[t].seen, model)
       IN  IF model.kind # "estimator" \/ model.raises # ""
           THEN Finish(t, predict_except(model.raises, model.message), seen)
           ELSE Advance(t, "append", seen, tasks[t].table,
                        model_predict(model, tasks[t].table))
    /\ UNCHANGED <<served, model, history, app_model, app_history,
                   request, response, input_data, returned>>

\* predict: history.append(history_entry), return.
predict_append(t) ==
    /\ MayRun(t) /\ tasks[t].req.op = "predict" /\ tasks[t].pc = "append"
    /\ history' = Append(history, [input |-> dict(Body(tasks[t].req.body)),
                                   prediction |-> tasks[t].prediction])
    /\ Finish(t, Return([prediction |-> tasks[t].prediction]), tasks[t].seen)
    /\ UNCHANGED <<served, model, app_model, app_history,
                   request, response, input_data, returned>>

\* get_history
get_history_task(t) ==
    /\ MayRun(t) /\ tasks[t].req.op = "get_history"
    /\ Finish(t, IF history = <<>>
                 THEN HTTPException(404, "Histórico não encontrado")
                 ELSE Return([history |-> history]), <<>>)
    /\ UNCHANGED <<served, model, history, app_model, app_history,
                   request, response, input_data, returned>>

\* health
health_task(t) ==
    /\ MayRun(t) /\ tasks[t].req.op = "health"
    /\ Finish(t, Return([status |-> "API está funcionando corretamente"]), <<>>)
    /\ UNCHANGED <<served, model, history, app_model, app_history,
                   request, response, input_data, returned>>

InitLoop == Init /\ served = "main"

NextLoop ==
    \/ \E req \in Requests : arrive(req)
    \/ \E t \in 1..MaxTasks : load_model_task(t)
    \/ \E t \in 1..MaxTasks : predict_check(t)
    \/ \E t \in 1..MaxTasks : predict_align(t)
    \/ \E t \in 1..MaxTasks : predict_invoke(t)
    \/ \E t \in 1..MaxTasks : predict_append(t)
    \/ \E t \in 1..MaxTasks : get_history_task(t)
    \/ \E t \in 1..MaxTasks : health_task(t)

SpecLoop == InitLoop /\ [][NextLoop]_vars

\* One request served alone, from the globals m and h: the globals after it
\* and its response.
serve(m, h, req) ==
    CASE req.op = "load" ->
           LET r == joblib_load(req.file)
           IN  IF r.ok
               THEN [model |-> r.obj, history |-> h,
                     response |-> Return([status |-> "Modelo carregado com sucesso"])]
               ELSE [model |-> m, history |-> h,
                     response |-> HTTPException(400, r.error)]
      [] req.op = "predict" ->
           IF ~Valid(Body(req.body))
           THEN [model |-> m, history |-> h,
                 response |-> RequestValidationError(Body(req.body))]
           ELSE LET r == predict_body(m, dict(Body(req.body)))
                IN  [model |-> m, history |-> h \o r.appended, response |-> r.response]
      [] req.op = "get_history" ->
           [model |-> m, history |-> h,
            response |-> IF h = <<>>
                         THEN HTTPException(404, "Histórico não encontrado")
                         ELSE Return([history |-> h])]
      [] req.op = "health" ->
           [model |-> m, history |-> h,
            response |-> Return([status |-> "API está funcionando corretamente"])]

\* The requests of `order` served one after another from a fresh process: the
\* globals at the end and the responses.
RECURSIVE serial(_, _)
serial(order, n) ==
    IF n = 0
    THEN [model |-> None, history |-> <<>>, responses |-> <<>>]
    ELSE LET before == serial(order, n - 1)
             r == serve(before.model, before.history, tasks[order[n]].req)
         IN  [model |-> r.model, history |-> r.history,
              responses |-> Append(before.responses, r.response)]

-----------------------------------------------------------------------------
(* Properties                                                                *)

\* The globals of the module served.
Model == IF served = "main" THEN model ELSE app_model
History == IF served = "main" THEN history ELSE app_history

\* The last request was a predict whose body passed validation.
ValidPredict == request.op = "predict" /\ Valid(Body(request.body))

\* Two JSON values are the same value (3983 and 3983.0 are).
JsonEq(u, v) == IF u.t = "str" \/ v.t = "str" THEN u = v ELSE u.n = v.n

\* The estimators that answer.
Genuine(m) == m.kind = "estimator" /\ m.raises = ""

Entries(r) == IF "history" \in DOMAIN r.body THEN r.body.history ELSE <<>>

C5_LoadThenPredict ==
    [][(/\ request.op = "load" /\ response.status = 200
        /\ "status" \in DOMAIN response.body
        /\ Genuine(joblib_load(request.file).obj)
        /\ request'.op = "predict" /\ request'.body = "example")
       => /\ response'.status = 200
          /\ DOMAIN response'.body = {"prediction"}
          /\ input_data'.handed
          /\ response'.body.prediction
               = model_predict(joblib_load(request.file).obj, input_data')
          /\ IF served = "main"
             THEN history' = Append(history,
                                    [input |-> example,
                                     prediction |-> response'.body.prediction])
             ELSE app_history' = Append(app_history,
                                        [input |-> example,
                                         prediction |-> response'.body.prediction])]_vars

C5_Witness ==
    /\ served = "main" /\ request.op = "predict" /\ request.body = "example"
    /\ response.status = 200
    /\ model = joblib_load("flight_delay_model.joblib").obj
    /\ Len(history) = 1

\* C6 as stated: the app of module main answers 200 to every request and
\* reports failure in the body's `status` field.
C6_MainAlways200 ==
    (served = "main" /\ request.op # "none")
    => /\ response.status = 200
       /\ (ValidPredict /\ model = None)
          => response.body = [status |-> "Modelo não carregado"]
       /\ (request.op = "get_history" /\ history = <<>>)
          => response.body = [status |-> "Histórico não encontrado"]
       /\ (request.op = "load" /\ ~joblib_load(request.file).ok)
          => DOMAIN response.body = {"status"}

\* C7 as stated: app.py answers a predict without a model with status 400,
\* and a failed load with status 200 and an `error` field.
C7_MinimalNotLoaded400 ==
    served = "app"
    => /\ (ValidPredict /\ app_model = None) => response.status = 400
       /\ (request.op = "load" /\ ~joblib_load(request.file).ok)
          => response.status = 200 /\ DOMAIN response.body = {"error"}

\* C7 amended: app.py answers a valid predict without a model with status 200
\* and {"error": "Modelo não carregado"}, and a failed load with status 200
\* and an `error` field.
C7_MinimalNotLoaded200 ==
    served = "app"
    => /\ (ValidPredict /\ app_model = None)
          => response = [status |-> 200,
                         body |-> [error |-> "Modelo não carregado"]]
       /\ (request.op = "load" /\ ~joblib_load(request.file).ok)
          => response.status = 200 /\ DOMAIN response.body = {"error"}

C7_Witness ==
    /\ served = "app" /\ ValidPredict /\ app_model = None
    /\ response.status = 200

\* C8 as stated: main.py: with a model loaded, a predict whose alignment or
\* model invocation fails is answered 500 with an `error` field that starts
\* "Erro interno do servidor: ", and appends nothing.
C8_PredictFailure500 ==
    [][(/\ served = "main" /\ model # None
        /\ (model.kind # "estimator" \/ model.raises # "")
        /\ request'.op = "predict" /\ Valid(Body(request'.body)))
       => /\ response'.status = 500
          /\ response'.body
               = [error |-> "Erro interno do servidor: " \o model.message]
          /\ history' = history]_vars

\* C9: the table handed to the model has exactly the columns of
\* feature_names_in_, in that order; a column present after one-hot encoding
\* keeps the request's value, every other column is numeric zero.
C9_AlignedRow ==
    (request.op = "predict" /\ input_data.handed)
    => LET encoded == get_dummies(DataFrame(dict(Body(request.body))),
                                  <<"carrier", "origin", "dest">>, TRUE)
       IN  /\ input_data.columns = Model.feature_names_in_
           /\ Len(input_data.values) = Len(input_data.columns)
           /\ \A i \in DOMAIN input_data.columns :
                 IF input_data.columns[i] \in Range(encoded.columns)
                 THEN input_data.values[i] = Cell(encoded, input_data.columns[i])
                 ELSE input_data.values[i].n = 0
                      /\ input_data.values[i].t \in {"int", "float"}

C9_Witness ==
    /\ request.op = "predict" /\ request.body = "december" /\ input_data.handed
    /\ Model = joblib_load("second_model.joblib").obj
    /\ input_data.values = <<F(2475), I(0), I(12)>>

\* C10: in every state, health is answered 200 with exactly
\* {"status": "API está funcionando corretamente"}.
C10_Health ==
    request.op = "health"
    => response = [status |-> 200,
                   body |-> [status |-> "API está funcionando corretamente"]]

C10_Witness ==
    /\ served = "main" /\ request.op = "health" /\ response.status = 200
    /\ model = None /\ history # <<>>

\* C11: health and get-history change neither the model slot nor the history,
\* and one repeated right after itself gets the identical response.
C11_PureReads ==
    [][request'.op \in {"health", "get_history"}
       => /\ UNCHANGED <<model, history, app_model, app_history>>
          /\ request.op = request'.op => response' = response]_vars

C11_Witness ==
    /\ request.op = "get_history" /\ response.status = 200
    /\ Len(Entries(response)) = 2 /\ Entries(response) = History

\* C12: main.py: a predict whose body has a missing or wrongly typed field is
\* answered 422 in every state, also with no model loaded, before the handler
\* runs: the slot and the history are unchanged and no table is built.
C12_Malformed422 ==
    [][(served = "main" /\ request'.op = "predict" /\ ~Valid(Body(request'.body)))
       => /\ response'.status = 422
          /\ DOMAIN response'.body = {"detail"}
          /\ response'.body.detail # "Modelo não carregado"
          /\ ~input_data'.handed
          /\ model' = model /\ history' = history]_vars

C12_Witness ==
    /\ served = "main" /\ request.op = "predict" /\ request.body = "no_distance"
    /\ model = None /\ response.status = 422

\* seq2 is seq1 with exactly one entry added at its end.
AppendedOne(seq1, seq2) ==
    Len(seq2) = Len(seq1) + 1 /\ SubSeq(seq2, 1, Len(seq1)) = seq1

\* C13: every request leaves the history as it was or appends exactly one
\* entry at its end, and only a predict whose model invocation succeeded
\* appends.
C13_AppendOnly ==
    [][/\ history' = history \/ AppendedOne(history, history')
       /\ app_history' = app_history \/ AppendedOne(app_history, app_history')
       /\ (history' # history \/ app_history' # app_history)
          => /\ request'.op = "predict"
             /\ Model # None
             /\ input_data'.handed
             /\ response' = Return([prediction |-> model_predict(Model, input_data')])
             /\ History'[Len(History')].prediction = response'.body.prediction]_vars

C13_Witness ==
    /\ request.op = "predict" /\ response.status = 200
    /\ Len(History) = 2 /\ History[1] # History[2]

\* C14 as stated: the slot is empty at start; a load that answers success
\* leaves in the slot the object it deserialized, and from then on the slot
\* is never empty and no predict is answered "not loaded".
C14_LoadedNeverEmpty ==
    /\ model = None /\ app_model = None
    /\ [][/\ (request'.op = "load"
              /\ response' = Return([status |-> "Modelo carregado com sucesso"]))
             => Model' = joblib_load(request'.file).obj /\ Model' # None
          /\ Model # None => Model' # None
          /\ (Model # None /\ request'.op = "predict"
              /\ Valid(Body(request'.body)))
             => /\ response' # HTTPException(400, "Modelo não carregado")
                /\ response' # Return([error |-> "Modelo não carregado"])]_vars

\* Two valid bodies agree on every numeric field.
AgreeNumeric(b1, b2) ==
    \A f \in Range(FlightData) :
        FieldType(f) # "str" => dict(Body(b1))[f].n = dict(Body(b2))[f].n

\* C16: no indicator column is made of carrier, origin or dest: every column
\* handed to the model that is no numeric field is zero, and any valid record
\* with the same numeric fields gives the same table and the same prediction.
C16_CategoricalsIgnored ==
    (request.op = "predict" /\ input_data.handed)
    => /\ \A i \in DOMAIN input_data.columns :
             (input_data.columns[i] \notin Range(FlightData)
              \/ FieldType(input_data.columns[i]) = "str")
             => input_data.values[i].n = 0
       /\ \A b \in BodyNames :
             (Valid(Body(b)) /\ AgreeNumeric(b, request.body))
             => /\ Handed(aligned(Model, dict(Body(b)))) = input_data
                /\ response.status = 200
                   => response.body.prediction
                        = model_predict(Model, aligned(Model, dict(Body(b))))

C16_Witness ==
    /\ request.op = "predict" /\ request.body = "other_route"
    /\ Model = joblib_load("flight_delay_model.joblib").obj
    /\ Len(History) = 2
    /\ History[1].input # History[2].input
    /\ History[1].prediction = History[2].prediction

\* C15: no handler is suspended inside its body, so the model slot, the
\* history and every response are those of the answered requests served one
\* after another in the order they were answered; a predict reads one single
\* model for its check, its alignment and its invocation, and the slot holds
\* the model of the successful load answered last.
C15_Serialized ==
    LET r == serial(done, Len(done))
        loads == {i \in DOMAIN done :
                     /\ tasks[done[i]].req.op = "load"
                     /\ joblib_load(tasks[done[i]].req.file).ok}
    IN  /\ \A t \in DOMAIN tasks : tasks[t].pc \notin {"start", "done"} => running = t
        /\ model = r.model /\ history = r.history
        /\ \A i \in DOMAIN done : tasks[done[i]].response = r.responses[i]
        /\ \A t \in DOMAIN tasks : \A i, j \in DOMAIN tasks[t].seen :
              tasks[t].seen[i] = tasks[t].seen[j]
        /\ loads # {}
           => model = joblib_load(
                  tasks[done[CHOOSE i \in loads : \A j \in loads : j <= i]].req.file).obj

C15_Witness ==
    /\ Len(done) = 3 /\ done = <<3, 1, 2>>
    /\ tasks[3].req.op = "load" /\ tasks[3].response.status = 200
    /\ tasks[1].req.op = "predict" /\ tasks[1].response.status = 200
    /\ tasks[2].req.op = "load" /\ model = None

=============================================================================
